---- MODULE Spec2Model ----
(***************************************************************************)
(* Session authentication of passport-local-knex: the users table, the     *)
(* passport session of each client, the three guards of auth/_helpers.js   *)
(* and the five routes of routes/auth.js and routes/user.js.  A request is *)
(* handled in one step: the store is queried at most twice per request     *)
(* (deserializeUser, then the query of the guard or handler), records are  *)
(* never updated or deleted, and an insert is atomic in the store.  The    *)
(* variable last holds the exchange in progress, from the step that        *)
(* handles the request to the step in which the client is done with it,    *)
(* and script the requests a scripted client has still to send.  Where the *)
(* interleaving of the handlers with the store matters, inflight holds the *)
(* registration each session has under way, step by step, and accepted     *)
(* counts the registrations answered 200 per username.                     *)
(***************************************************************************)
EXTENDS Integers, Sequences, FiniteSets, TLC

VARIABLES users, session, last, script, inflight, accepted

vars == <<users, session, last, script, inflight, accepted>>

----------------------------------------------------------------------------
(* Bounds *)

NumSessions == 2
NumSalts == 2

Sessions == 1..NumSessions
Salts == 1..NumSalts

(* Values of the request bodies, from the tests and the seed file: "six"   *)
(* and "kelly" are shorter than 6 characters, "jeremy" and "herman" are    *)
(* exactly 6 long; "jeremy" and "kelly" are the usernames of the seed.     *)
Usernames == {"six", "kelly", "jeremy", "michael"}
Passwords == {"six", "herman"}

(* undefined, as a string, as an identifier and as a response *)
None == "<none>"
Absent == "<undefined>"
NoId == 0
ReqObject == "<req>"
VerifiedFn == "<verified>"

----------------------------------------------------------------------------
(* bcryptjs, as used by createUser, the seed file and comparePass *)

hashSync(password, salt) == [salt |-> salt, digest |-> <<salt, password>>]

compareSync(s, hash) == hashSync(s, hash.salt) = hash

comparePass_pending(userPassword, databasePassword) == TRUE

comparePass(userPassword, databasePassword) ==
    compareSync(userPassword, databasePassword)

----------------------------------------------------------------------------
(* The users table: a sequence of rows in insertion order *)

Row(id, username, password, admin) ==
    [id |-> id, username |-> username, password |-> password, admin |-> admin]

(* undefined, where a row is expected *)
NoUser == Row(NoId, Absent, [salt |-> 0, digest |-> <<0, Absent>>], FALSE)

(* table.boolean('admin').notNullable().defaultTo(false) *)
adminDefault == FALSE

(* table.increments() *)
nextId(tbl) == Len(tbl) + 1

(* knex('users').where({...}).first(): the first matching row or undefined *)
RECURSIVE firstWhere(_, _, _)
firstWhere(tbl, field, value) ==
    IF tbl = <<>> THEN NoUser
    ELSE IF Head(tbl)[field] = value THEN Head(tbl)
    ELSE firstWhere(Tail(tbl), field, value)

violatesUnique_none(tbl, username) == FALSE

(* table.string('username').unique() *)
violatesUnique(tbl, username) ==
    \E i \in 1..Len(tbl) : tbl[i].username = username

(* The seed file: jeremy, then kelly with admin: true *)
seed(s1, s2) ==
    << Row(1, "jeremy", hashSync("johnson123", s1), adminDefault),
       Row(2, "kelly", hashSync("bryant123", s2), TRUE) >>

----------------------------------------------------------------------------
(* Responses.  res.status(code).json({status}) sends the response; once a  *)
(* response is sent every further call throws ("Can't set headers after    *)
(* they are sent"), so the client sees the first attempt only.             *)

(* The values a status text embeds besides its fixed wording: none for the *)
(* literals of the routes                                                  *)
NoBindings ==
    [username |-> Absent, password |-> [salt |-> 0, digest |-> <<0, Absent>>]]

Response(code, statusMsg) ==
    [code |-> code, status |-> statusMsg, bindings |-> NoBindings]

handleResponse(attempts, code, statusMsg) ==
    Append(attempts, Response(code, statusMsg))

headersSent(attempts) == attempts # <<>>

NoResponse == Response(0, None)

NoBody ==
    [username |-> Absent, email |-> Absent, password |-> Absent,
     admin |-> Absent]

NoRequest ==
    [op |-> "none", sess |-> 0, body |-> NoBody, reqUser |-> NoId,
     deser |-> "none", query |-> "none", attempts |-> <<>>,
     guard |-> "none", ran |-> FALSE, thrown |-> "none"]

(* What the client of the last request received from the routes *)
Observed == IF last.attempts = <<>> THEN NoResponse ELSE Head(last.attempts)

(* A write made after the response was sent throws inside the caller *)
throwsIfSent(before, where) == IF headersSent(before) THEN where ELSE "none"

----------------------------------------------------------------------------
(* passport.serializeUser / passport.deserializeUser *)

serializeUser(user) == user.id

deserializeUser(tbl, id) == firstWhere(tbl, "id", id)

passportSession_swallow(tbl, su, dOk) ==
    IF su = NoId \/ ~dOk THEN [user |-> NoUser, deser |-> "none"]
    ELSE [user |-> deserializeUser(tbl, su), deser |-> "ok"]

passportSession_shared(tbl, su, dOk) ==
    LET shared == session[1]
    IN IF shared = NoId THEN [user |-> NoUser, deser |-> "none"]
       ELSE IF ~dOk THEN [user |-> NoUser, deser |-> "fail"]
       ELSE [user |-> deserializeUser(tbl, shared), deser |-> "ok"]

(* passport.session(): the user a request of session value su resolves to. *)
(* A failed query is passed to the error handling of the framework and the *)
(* route is not reached.                                                   *)
passportSession(tbl, su, dOk) ==
    IF su = NoId THEN [user |-> NoUser, deser |-> "none"]
    ELSE IF ~dOk THEN [user |-> NoUser, deser |-> "fail"]
    ELSE [user |-> deserializeUser(tbl, su), deser |-> "ok"]

reqLogout_all(sess, s) == [t \in Sessions |-> NoId]

reqLogout_keep(sess, s) == sess

(* req.logout() *)
reqLogout(sess, s) == [sess EXCEPT ![s] = NoId]

(* req.login(user, cb): stores serializeUser(user) in the session *)
reqLogin(sess, s, user) == [sess EXCEPT ![s] = serializeUser(user)]

----------------------------------------------------------------------------
(* Guards of auth/_helpers.js: the attempts a guard makes and whether it   *)
(* calls next()                                                            *)

loginRequired_noReturn(user) ==
    IF user = NoUser
    THEN [attempts |-> handleResponse(<<>>, 401, "Please log in"), next |-> TRUE]
    ELSE [attempts |-> <<>>, next |-> TRUE]

loginRequired(user) ==
    IF user = NoUser
    THEN [attempts |-> handleResponse(<<>>, 401, "Please log in"), next |-> FALSE]
    ELSE [attempts |-> <<>>, next |-> TRUE]

loginRedirect_noReturn(user) ==
    IF user # NoUser
    THEN [attempts |-> handleResponse(<<>>, 401, "You are already logged in"),
          next |-> TRUE]
    ELSE [attempts |-> <<>>, next |-> TRUE]

loginRedirect(user) ==
    IF user # NoUser
    THEN [attempts |-> handleResponse(<<>>, 401, "You are already logged in"),
          next |-> FALSE]
    ELSE [attempts |-> <<>>, next |-> TRUE]

adminRequired_noFlagCheck(user, tbl, qOk) ==
    IF user = NoUser
    THEN [attempts |-> handleResponse(<<>>, 401, "Please log in"),
          next |-> FALSE, query |-> "none", thrown |-> "express"]
    ELSE IF ~qOk
    THEN [attempts |-> handleResponse(<<>>, 500, "Something bad happened"),
          next |-> FALSE, query |-> "fail", thrown |-> "none"]
    ELSE [attempts |-> <<>>, next |-> TRUE, query |-> "ok", thrown |-> "none"]

adminRequired_noCatch(user, tbl, qOk) ==
    IF user = NoUser
    THEN [attempts |-> handleResponse(<<>>, 401, "Please log in"),
          next |-> FALSE, query |-> "none", thrown |-> "express"]
    ELSE IF ~qOk
    THEN [attempts |-> <<>>, next |-> FALSE, query |-> "fail",
          thrown |-> "unhandled"]
    ELSE [attempts |-> IF ~firstWhere(tbl, "username", user.username).admin
                       THEN handleResponse(<<>>, 401, "You are not authorized")
                       ELSE <<>>,
          next |-> TRUE, query |-> "ok", thrown |-> "none"]

adminRequired_throwInChain(user, tbl, qOk) ==
    IF user = NoUser
    THEN [attempts |-> handleResponse(handleResponse(<<>>, 401, "Please log in"),
                                      500, "Something bad happened"),
          next |-> FALSE, query |-> "none", thrown |-> "unhandled"]
    ELSE IF ~qOk
    THEN [attempts |-> handleResponse(<<>>, 500, "Something bad happened"),
          next |-> FALSE, query |-> "fail", thrown |-> "none"]
    ELSE [attempts |-> IF ~firstWhere(tbl, "username", user.username).admin
                       THEN handleResponse(<<>>, 401, "You are not authorized")
                       ELSE <<>>,
          next |-> TRUE, query |-> "ok", thrown |-> "none"]

(* adminRequired: the first test has no return, so with no user the guard  *)
(* goes on to read req.user.username, which throws before any query.       *)
adminRequired(user, tbl, qOk) ==
    LET a0 == IF user = NoUser
              THEN handleResponse(<<>>, 401, "Please log in")
              ELSE <<>>
    IN IF user = NoUser
       THEN [attempts |-> a0, next |-> FALSE, query |-> "none",
             thrown |-> "express"]
       ELSE IF ~qOk
       THEN [attempts |-> handleResponse(a0, 500, "Something bad happened"),
             next |-> FALSE, query |-> "fail", thrown |-> "none"]
       ELSE LET row == firstWhere(tbl, "username", user.username)
            IN IF row = NoUser
               THEN [attempts |-> handleResponse(a0, 500, "Something bad happened"),
                     next |-> FALSE, query |-> "ok", thrown |-> "none"]
               ELSE [attempts |-> IF ~row.admin
                                  THEN handleResponse(a0, 401, "You are not authorized")
                                  ELSE a0,
                     next |-> TRUE, query |-> "ok", thrown |-> "none"]

----------------------------------------------------------------------------
(* Registration: handleErrors, createUser, handleLogin *)

UsernameTooShort == "Username must be longer than 6 characters"
PasswordTooShort == "Password must be longer than 6 characters"
(* err.message of a rejected insert: knex prefixes the text of the store   *)
(* with the statement and its bound values, here the username and the hash *)
UniqueViolationMessage == "duplicate key value violates unique constraint"
StoreFailureMessage == "connect ECONNREFUSED"

queryErrorResponse(code, message, row) ==
    [code |-> code, status |-> message,
     bindings |-> [username |-> row.username, password |-> row.password]]

handleErrors_longerThan(body) ==
    IF Len(body.username) <= 6 THEN UsernameTooShort
    ELSE IF Len(body.password) <= 6 THEN PasswordTooShort
    ELSE None

handleErrors_passwordFirst(body) ==
    IF Len(body.password) < 6 THEN PasswordTooShort
    ELSE IF Len(body.username) < 6 THEN UsernameTooShort
    ELSE None

handleErrors_usernameOnly(body) ==
    IF Len(body.username) < 6 THEN UsernameTooShort ELSE None

(* The message of the rejection, None when the promise resolves *)
handleErrors(body) ==
    IF Len(body.username) < 6 THEN UsernameTooShort
    ELSE IF Len(body.password) < 6 THEN PasswordTooShort
    ELSE None

createUser_insertFirst(tbl, body, salt, qOk) ==
    LET err == handleErrors(body)
        hash == hashSync(body.password, salt)
        row == Row(nextId(tbl), body.username, hash, adminDefault)
    IN IF ~qOk
       THEN [attempts |-> handleResponse(<<>>, 400, StoreFailureMessage),
             rows |-> <<>>, tbl |-> tbl, query |-> "fail"]
       ELSE IF violatesUnique(tbl, body.username)
       THEN [attempts |-> <<queryErrorResponse(400, UniqueViolationMessage, row)>>,
             rows |-> <<>>, tbl |-> tbl, query |-> "rejected"]
       ELSE [attempts |-> IF err # None THEN handleResponse(<<>>, 400, err)
                          ELSE <<>>,
             rows |-> <<row>>, tbl |-> Append(tbl, row), query |-> "ok"]

createUser_insertBody(tbl, body, salt, qOk) ==
    LET err == handleErrors(body)
        hash == hashSync(body.password, salt)
        row == Row(nextId(tbl), body.username, hash, body.admin = "true")
    IN IF err # None
       THEN [attempts |-> handleResponse(<<>>, 400, err), rows |-> <<>>,
             tbl |-> tbl, query |-> "none"]
       ELSE IF ~qOk
       THEN [attempts |-> handleResponse(<<>>, 400, StoreFailureMessage),
             rows |-> <<>>, tbl |-> tbl, query |-> "fail"]
       ELSE IF violatesUnique(tbl, body.username)
       THEN [attempts |-> <<queryErrorResponse(400, UniqueViolationMessage, row)>>,
             rows |-> <<>>, tbl |-> tbl, query |-> "rejected"]
       ELSE [attempts |-> <<>>, rows |-> <<row>>, tbl |-> Append(tbl, row),
             query |-> "ok"]

(* createUser: every rejection, of the validation and of the insert alike, *)
(* is answered by its catch with 400 {status: err.message}; the promise    *)
(* then resolves with undefined.  The insert names the username and the    *)
(* hash only, so the store gives admin its default.                        *)
createUser(tbl, body, salt, qOk) ==
    LET err == handleErrors(body)
        hash == hashSync(body.password, salt)
        row == Row(nextId(tbl), body.username, hash, adminDefault)
    IN IF err # None
       THEN [attempts |-> handleResponse(<<>>, 400, err), rows |-> <<>>,
             tbl |-> tbl, query |-> "none"]
       ELSE IF ~qOk
       THEN [attempts |-> handleResponse(<<>>, 400, StoreFailureMessage),
             rows |-> <<>>, tbl |-> tbl, query |-> "fail"]
       ELSE IF violatesUnique(tbl, body.username)
       THEN [attempts |-> <<queryErrorResponse(400, UniqueViolationMessage, row)>>,
             rows |-> <<>>, tbl |-> tbl, query |-> "rejected"]
       ELSE [attempts |-> <<>>, rows |-> <<row>>, tbl |-> Append(tbl, row),
             query |-> "ok"]

(* handleLogin(req, user) calls req.login(user, cb) on its first argument. *)
(* Only the request object has a login method: on any other object the     *)
(* call throws inside the promise, which rejects.                          *)
handleLogin(target, sess, s, user) ==
    IF target = "req"
    THEN [session |-> reqLogin(sess, s, user), rejected |-> FALSE]
    ELSE [session |-> sess, rejected |-> TRUE]

(* The object router.post('/register') hands to handleLogin *)
registerLoginTarget == "res"

----------------------------------------------------------------------------
(* auth/local.js: the strategy options and the verify callback *)

options_username ==
    [usernameField |-> "username", passwordField |-> "password",
     passReqToCallback |-> TRUE]

options ==
    [usernameField |-> "email", passwordField |-> "password",
     passReqToCallback |-> TRUE]

lookup(body, field) == body[field]

(* The verify callback (username, password, done).  Every path ends in a   *)
(* call of done: when done is not a function the call throws, the catch    *)
(* calls done again, and the rejection is handled by nobody.               *)
verify(tbl, username, password, done, qOk) ==
    IF done # VerifiedFn THEN [kind |-> "unhandled", user |-> NoUser]
    ELSE IF ~qOk THEN [kind |-> "error", user |-> NoUser]
    ELSE LET user == firstWhere(tbl, "username", username)
         IN IF user = NoUser THEN [kind |-> "fail", user |-> NoUser]
            ELSE IF ~comparePass(password, user.password)
            THEN [kind |-> "fail", user |-> NoUser]
            ELSE [kind |-> "success", user |-> user]

(* passport-local Strategy.authenticate: missing credentials fail without  *)
(* calling verify; with passReqToCallback the request is the first         *)
(* argument of verify and the verified function the fourth.                *)
authenticate(tbl, body, qOk) ==
    LET username == lookup(body, options.usernameField)
        password == lookup(body, options.passwordField)
    IN IF username = Absent \/ password = Absent
       THEN [kind |-> "fail", user |-> NoUser, query |-> "none"]
       ELSE LET v == IF options.passReqToCallback
                     THEN verify(tbl, ReqObject, username, password, qOk)
                     ELSE verify(tbl, username, password, VerifiedFn, qOk)
            IN [kind |-> v.kind, user |-> v.user,
                query |-> IF qOk THEN "ok" ELSE "fail"]

(* The callback (err, user, info) of router.post('/login'): three tests in *)
(* a row, none of which establishes a session.                             *)
loginCallback(kind) ==
    LET a1 == IF kind = "error" THEN handleResponse(<<>>, 500, "error") ELSE <<>>
        a2 == IF kind # "success" THEN handleResponse(a1, 404, "User not found")
              ELSE a1
        a3 == IF kind = "success" THEN handleResponse(a2, 200, "success") ELSE a2
    IN a3

----------------------------------------------------------------------------
(* Request bodies *)

Body(username, email, password) ==
    [username |-> username, email |-> email, password |-> password,
     admin |-> Absent]

(* A registration may carry more than the two fields the route reads *)
RegisterBodies ==
    {[Body(u, Absent, p) EXCEPT !.admin = a] :
        u \in Usernames, p \in Passwords, a \in {Absent, "true"}}

LoginBodies ==
    {Body(u, Absent, p) : u \in Usernames, p \in Passwords}
    \cup {Body(Absent, u, p) : u \in Usernames, p \in Passwords}

StoredUsers == {users[i] : i \in 1..Len(users)}

(* No registration under way *)
Idle ==
    [phase |-> "idle", body |-> NoBody, salt |-> 0, rows |-> <<>>,
     query |-> "none", attempts |-> <<>>]

----------------------------------------------------------------------------
(* The table after the migration, empty, or after the seed file has run    *)
(* (with the two salts it drew); no session holds a user.                  *)
Init ==
    /\ users \in {<<>>, seed(1, 2)}
    /\ session = [s \in Sessions |-> NoId]
    /\ last = NoRequest
    /\ script = <<>>
    /\ inflight = [s \in Sessions |-> Idle]
    /\ accepted = [u \in Usernames |-> 0]

(* A request whose session user could not be deserialized: passport passes *)
(* the error on and no guard or route runs.                                *)
Request(op, s, body, ps) ==
    [NoRequest EXCEPT !.op = op, !.sess = s, !.body = body,
                      !.reqUser = ps.user.id,
                      !.deser = ps.deser]

deserializeFailed(op, s, body, ps) ==
    /\ last' = [Request(op, s, body, ps) EXCEPT !.thrown = "express"]
    /\ UNCHANGED <<users, session>>

(* The client is done with the exchange: the callback of .end() in the     *)
(* tests, or the client giving up on a request that is never answered.     *)
end ==
    /\ last # NoRequest
    /\ last' = NoRequest
    /\ UNCHANGED <<users, session>>

(* The tests authenticate a client with passportStub.login(user): the      *)
(* session then resolves to that user, as after req.login(user).           *)
passportStubLogin(s, u) ==
    /\ last = NoRequest
    /\ session[s] = NoId
    /\ session' = reqLogin(session, s, u)
    /\ last' = NoRequest
    /\ UNCHANGED users

(* GET /user *)
getUser(s, dOk) ==
    /\ last = NoRequest
    /\ LET ps == passportSession(users, session[s], dOk)
           g == loginRequired(ps.user)
       IN IF ps.deser = "fail" THEN deserializeFailed("user", s, NoBody, ps)
          ELSE
          /\ last' = [Request("user", s, NoBody, ps) EXCEPT
                        !.guard = "loginRequired",
                        !.attempts = IF g.next
                                     THEN handleResponse(g.attempts, 200, "success")
                                     ELSE g.attempts,
                        !.ran = g.next]
          /\ UNCHANGED <<users, session>>

(* GET /auth/logout *)
logout(s, dOk) ==
    /\ last = NoRequest
    /\ LET ps == passportSession(users, session[s], dOk)
           g == loginRequired(ps.user)
       IN IF ps.deser = "fail" THEN deserializeFailed("logout", s, NoBody, ps)
          ELSE
          /\ last' = [Request("logout", s, NoBody, ps) EXCEPT
                        !.guard = "loginRequired",
                        !.attempts = IF g.next
                                     THEN handleResponse(g.attempts, 200, "success")
                                     ELSE g.attempts,
                        !.ran = g.next]
          /\ session' = IF g.next THEN reqLogout(session, s) ELSE session
          /\ UNCHANGED users

(* GET /admin: next() runs the handler whatever the guard has written; a   *)
(* handler that writes after the response was sent throws into the router. *)
getAdmin(s, dOk, qOk) ==
    /\ last = NoRequest
    /\ LET ps == passportSession(users, session[s], dOk)
           g == adminRequired(ps.user, users, qOk)
       IN IF ps.deser = "fail" THEN deserializeFailed("admin", s, NoBody, ps)
          ELSE
          /\ last' = [Request("admin", s, NoBody, ps) EXCEPT
                        !.guard = "adminRequired",
                        !.query = g.query,
                        !.attempts = IF g.next
                                     THEN handleResponse(g.attempts, 200, "success")
                                     ELSE g.attempts,
                        !.ran = g.next,
                        !.thrown = IF g.next
                                   THEN throwsIfSent(g.attempts, "express")
                                   ELSE g.thrown]
          /\ UNCHANGED <<users, session>>

(* POST /auth/register *)
register(s, body, salt, dOk, qOk) ==
    /\ last = NoRequest
    /\ LET ps == passportSession(users, session[s], dOk)
           g == loginRedirect(ps.user)
           c == createUser(users, body, salt, qOk)
           h == handleLogin(registerLoginTarget, session, s, c.rows[1])
       IN IF ps.deser = "fail" THEN deserializeFailed("register", s, body, ps)
          ELSE IF ~g.next
          THEN /\ last' = [Request("register", s, body, ps) EXCEPT
                             !.guard = "loginRedirect", !.attempts = g.attempts]
               /\ UNCHANGED <<users, session>>
          ELSE IF c.rows = <<>>
          THEN (* user[0] throws in the first then; the catch of the route      *)
               (* writes 500 after the 400 of createUser                        *)
               /\ last' = [Request("register", s, body, ps) EXCEPT
                             !.guard = "loginRedirect", !.ran = TRUE,
                             !.query = c.query,
                             !.attempts = handleResponse(g.attempts \o c.attempts,
                                                         500, "error"),
                             !.thrown = throwsIfSent(g.attempts \o c.attempts,
                                                     "unhandled")]
               /\ UNCHANGED <<users, session>>
          ELSE (* the promise of handleLogin is not returned: its rejection is  *)
               (* lost and the chain goes on to the 200                         *)
               /\ last' = [Request("register", s, body, ps) EXCEPT
                             !.guard = "loginRedirect", !.ran = TRUE,
                             !.query = c.query,
                             !.attempts = handleResponse(g.attempts \o c.attempts,
                                                         200, "success"),
                             !.thrown = IF h.rejected \/ headersSent(g.attempts)
                                        THEN "unhandled" ELSE "none"]
               /\ users' = c.tbl
               /\ session' = h.session

(* POST /auth/login *)
login(s, body, dOk, qOk) ==
    /\ last = NoRequest
    /\ LET ps == passportSession(users, session[s], dOk)
           g == loginRedirect(ps.user)
           a == authenticate(users, body, qOk)
           w == loginCallback(a.kind)
       IN IF ps.deser = "fail" THEN deserializeFailed("login", s, body, ps)
          ELSE IF ~g.next
          THEN /\ last' = [Request("login", s, body, ps) EXCEPT
                             !.guard = "loginRedirect", !.attempts = g.attempts]
               /\ UNCHANGED <<users, session>>
          ELSE /\ last' = [Request("login", s, body, ps) EXCEPT
                             !.guard = "loginRedirect", !.ran = TRUE,
                             !.query = a.query,
                             !.attempts = IF a.kind = "unhandled" THEN g.attempts
                                          ELSE g.attempts \o w,
                             !.thrown = IF a.kind = "unhandled"
                                           \/ Len(g.attempts \o w) > 1
                                        THEN "unhandled" ELSE "none"]
               /\ UNCHANGED <<users, session>>

(* The outcomes of the store queries of a request of session s: a request  *)
(* of an anonymous session makes no deserializeUser query, and a request   *)
(* stopped by its guard makes no other.                                    *)
DeserOutcomes(s) == IF session[s] = NoId THEN {TRUE} ELSE BOOLEAN
QueryOutcomes(queried) == IF queried THEN BOOLEAN ELSE {TRUE}

(* createUser draws a salt and inserts only after handleErrors resolves;   *)
(* the strategy calls verify only with both credentials present.           *)
Inserts(body) == handleErrors(body) = None
SaltChoices(s, body) ==
    IF session[s] = NoId /\ Inserts(body) THEN Salts ELSE {1}
Verifies(body) ==
    /\ lookup(body, options.usernameField) # Absent
    /\ lookup(body, options.passwordField) # Absent

Next ==
    \/ end /\ UNCHANGED <<script, inflight, accepted>>
    \/ \E s \in Sessions, u \in StoredUsers :
          passportStubLogin(s, u) /\ UNCHANGED <<script, inflight, accepted>>
    \/ \E s \in Sessions : \E dOk \in DeserOutcomes(s) :
          getUser(s, dOk) /\ UNCHANGED <<script, inflight, accepted>>
    \/ \E s \in Sessions : \E dOk \in DeserOutcomes(s) :
          logout(s, dOk) /\ UNCHANGED <<script, inflight, accepted>>
    \/ \E s \in Sessions :
          \E dOk \in DeserOutcomes(s), qOk \in QueryOutcomes(session[s] # NoId) :
             getAdmin(s, dOk, qOk) /\ UNCHANGED <<script, inflight, accepted>>
    \/ \E s \in Sessions, body \in RegisterBodies :
          \E salt \in SaltChoices(s, body), dOk \in DeserOutcomes(s),
             qOk \in QueryOutcomes(session[s] = NoId /\ Inserts(body)) :
             register(s, body, salt, dOk, qOk) /\ UNCHANGED <<script, inflight, accepted>>
    \/ \E s \in Sessions, body \in LoginBodies :
          \E dOk \in DeserOutcomes(s),
             qOk \in QueryOutcomes(session[s] = NoId /\ Verifies(body)) :
             login(s, body, dOk, qOk) /\ UNCHANGED <<script, inflight, accepted>>

Spec == Init /\ [][Next]_vars

----------------------------------------------------------------------------
(* The scripted client: one session that starts anonymous on an empty      *)
(* table and sends in a row, each after the answer to the one before and   *)
(* with the store answering, the four requests that the tests of README.md *)
(* make one by one: register, log in, log out and GET /user, as michael    *)
(* with a password of seven characters.  The other sessions send what they *)
(* like meanwhile, except a registration of the same username.             *)

ScenarioSession == 1
Bystanders == Sessions \ {ScenarioSession}

Scenario ==
    << [op |-> "register", body |-> Body("michael", Absent, "herman1")],
       [op |-> "login", body |-> Body("michael", Absent, "herman1")],
       [op |-> "logout", body |-> NoBody],
       [op |-> "user", body |-> NoBody] >>

ScenarioInit ==
    /\ users = <<>>
    /\ session = [s \in Sessions |-> NoId]
    /\ last = NoRequest
    /\ script = Scenario
    /\ inflight = [s \in Sessions |-> Idle]
    /\ accepted = [u \in Usernames |-> 0]

scripted(salt) ==
    /\ script # <<>>
    /\ script' = Tail(script)
    /\ UNCHANGED <<inflight, accepted>>
    /\ LET r == Head(script)
       IN IF r.op = "register"
          THEN register(ScenarioSession, r.body, salt, TRUE, TRUE)
          ELSE IF r.op = "login"
          THEN login(ScenarioSession, r.body, TRUE, TRUE)
          ELSE IF r.op = "logout"
          THEN logout(ScenarioSession, TRUE)
          ELSE getUser(ScenarioSession, TRUE)

ScenarioNext ==
    \/ end /\ UNCHANGED <<script, inflight, accepted>>
    \/ \E salt \in Salts : scripted(salt)
    \/ \E s \in Bystanders, u \in StoredUsers :
          passportStubLogin(s, u) /\ UNCHANGED <<script, inflight, accepted>>
    \/ \E s \in Bystanders : \E dOk \in DeserOutcomes(s) :
          getUser(s, dOk) /\ UNCHANGED <<script, inflight, accepted>>
    \/ \E s \in Bystanders : \E dOk \in DeserOutcomes(s) :
          logout(s, dOk) /\ UNCHANGED <<script, inflight, accepted>>
    \/ \E s \in Bystanders :
          \E dOk \in DeserOutcomes(s), qOk \in QueryOutcomes(session[s] # NoId) :
             getAdmin(s, dOk, qOk) /\ UNCHANGED <<script, inflight, accepted>>
    \/ \E s \in Bystanders, body \in RegisterBodies :
          \E salt \in SaltChoices(s, body), dOk \in DeserOutcomes(s),
             qOk \in QueryOutcomes(session[s] = NoId /\ Inserts(body)) :
             /\ body.username # Scenario[1].body.username
             /\ register(s, body, salt, dOk, qOk)
             /\ UNCHANGED <<script, inflight, accepted>>
    \/ \E s \in Bystanders, body \in LoginBodies :
          \E dOk \in DeserOutcomes(s),
             qOk \in QueryOutcomes(session[s] = NoId /\ Verifies(body)) :
             login(s, body, dOk, qOk) /\ UNCHANGED <<script, inflight, accepted>>

ScenarioSpec == ScenarioInit /\ [][ScenarioNext]_vars

----------------------------------------------------------------------------
(* Concurrent registrations.  A registration from an anonymous session is  *)
(* handled in three steps with the other sessions' steps in between: the   *)
(* handler runs up to the insert it sends (guard, handleErrors, hashSync), *)
(* the store executes the insert, which checks the unique constraint and   *)
(* appends in one step, and the handler resumes with the outcome and       *)
(* answers.                                                                *)

MaxRows == 5

ConcurrentInit ==
    /\ users \in {<<>>, seed(1, 2)}
    /\ session = [s \in Sessions |-> NoId]
    /\ last = NoRequest
    /\ script = <<>>
    /\ inflight = [s \in Sessions |-> Idle]
    /\ accepted = [u \in Usernames |-> 0]

(* router.post('/register') up to the insert it sends: a registration that *)
(* fails the validation is answered 400 there and then, without a query    *)
registerSend(s, body, salt) ==
    /\ inflight[s].phase = "idle"
    /\ loginRedirect(passportSession(users, session[s], TRUE).user).next
    /\ inflight' = [inflight EXCEPT ![s] =
          IF handleErrors(body) # None THEN Idle
          ELSE [Idle EXCEPT !.phase = "sent", !.body = body, !.salt = salt]]
    /\ UNCHANGED <<users, session, last, script, accepted>>

(* The store executes the insert of session s against the table as it is   *)
(* now                                                                     *)
storeInsert(s, qOk) ==
    /\ inflight[s].phase = "sent"
    /\ Len(users) < MaxRows
    /\ LET c == createUser(users, inflight[s].body, inflight[s].salt, qOk)
       IN /\ users' = c.tbl
          /\ inflight' = [inflight EXCEPT ![s].phase = "stored",
                                          ![s].rows = c.rows,
                                          ![s].query = c.query,
                                          ![s].attempts = c.attempts]
    /\ UNCHANGED <<session, last, script, accepted>>

(* The chain of the route resumes and the client reads the answer: 200     *)
(* after a resolved insert, the 400 of createUser (and an attempted 500)   *)
(* otherwise                                                               *)
registerRespond(s) ==
    /\ inflight[s].phase = "stored"
    /\ LET r == inflight[s]
           h == handleLogin(registerLoginTarget, session, s, r.rows[1])
           attempts == IF r.rows = <<>>
                       THEN handleResponse(r.attempts, 500, "error")
                       ELSE handleResponse(r.attempts, 200, "success")
       IN /\ inflight' = [inflight EXCEPT ![s] = Idle]
          /\ session' = IF r.rows = <<>> THEN session ELSE h.session
          /\ accepted' = IF Head(attempts) = Response(200, "success")
                         THEN [accepted EXCEPT ![r.body.username] = @ + 1]
                         ELSE accepted
    /\ UNCHANGED <<users, last, script>>

ConcurrentNext ==
    \/ \E s \in Sessions, u \in Usernames, p \in Passwords :
          \E salt \in SaltChoices(s, Body(u, Absent, p)) :
             registerSend(s, Body(u, Absent, p), salt)
    \/ \E s \in Sessions, qOk \in BOOLEAN : storeInsert(s, qOk)
    \/ \E s \in Sessions : registerRespond(s)

ConcurrentSpec == ConcurrentInit /\ [][ConcurrentNext]_vars
----------------------------------------------------------------------------
(* Vocabulary of the properties *)

Success == Response(200, "success")
PleaseLogIn == Response(401, "Please log in")
AlreadyLoggedIn == Response(401, "You are already logged in")
NotAuthorized == Response(401, "You are not authorized")
UserNotFound == Response(404, "User not found")

(* The request of record l came from a session that resolved to no user *)
Anonymous(l) == l.reqUser = NoId /\ l.deser = "none"

(* The request of record l came from a session that resolved to a user *)
Authenticated(l) == l.reqUser # NoId /\ l.deser = "ok"

(* The rows of tbl whose username and password a body submits *)
Matching(tbl, body) ==
    {i \in 1..Len(tbl) : /\ tbl[i].username = body.username
                         /\ comparePass(body.password, tbl[i].password)}

Stored(tbl, username) == \E i \in 1..Len(tbl) : tbl[i].username = username

----------------------------------------------------------------------------
(* C1: a login from an anonymous session whose username and password      *)
(* match a stored record answers 200 success and leaves the session        *)
(* resolving to that user, so that the next GET /user is let through.      *)
C1_LoginEstablishesSession ==
    (/\ last.op = "login" /\ Anonymous(last)
     /\ last.body.username # Absent
     /\ last.query # "fail"
     /\ Matching(users, last.body) # {})
    => /\ Observed = Success
       /\ \E i \in Matching(users, last.body) : session[last.sess] = users[i].id

(* C2: a registration from an anonymous session with valid lengths and a   *)
(* new username answers 200 success, inserts the record and leaves the     *)
(* session resolving to the new user.                                      *)
C2_RegisterLogsIn ==
    [][(/\ last'.op = "register" /\ Anonymous(last')
        /\ Len(last'.body.username) >= 6 /\ Len(last'.body.password) >= 6
        /\ ~Stored(users, last'.body.username)
        /\ last'.query = "ok")
       => /\ last'.attempts = <<Success>>
          /\ Len(users') = Len(users) + 1
          /\ Matching(users', last'.body) = {Len(users')}
          /\ session'[last'.sess] = users'[Len(users')].id]_vars

(* C3: a logout from an authenticated session answers 200 success and      *)
(* clears the session; a session that resolves to no user gets 401 Please  *)
(* log in from GET /user, and it resolves to no user until a step          *)
(* establishes it again.                                                   *)
C3_LogoutDestroysSession ==
    [][/\ (last'.op = "logout" /\ Authenticated(last'))
          => /\ last'.attempts = <<Success>>
             /\ session'[last'.sess] = NoId
       /\ (last'.op = "user" /\ session[last'.sess] = NoId)
          => /\ last'.attempts = <<PleaseLogIn>>
             /\ session'[last'.sess] = NoId
       /\ \A s \in Sessions :
            (session[s] = NoId /\ session'[s] # NoId)
            => \/ last'.op = "none"
               \/ /\ last'.op \in {"login", "register"}
                  /\ last'.sess = s
                  /\ last'.attempts = <<Success>>]_vars

C3_Witness ==
    /\ last.op = "logout" /\ Authenticated(last)
    /\ Observed = Success
    /\ session[last.sess] = NoId

(* C4: loginRequired decides GET /user and GET /auth/logout by the         *)
(* resolved user alone: none gives 401 Please log in and the handler does  *)
(* not run, a user gives the handler's 200 success.                        *)
C4_LoginRequiredDecides ==
    (last.op \in {"user", "logout"} /\ last.guard = "loginRequired")
    => IF last.reqUser = NoId
       THEN last.attempts = <<PleaseLogIn>> /\ ~last.ran
       ELSE last.attempts = <<Success>> /\ last.ran

C4_Witness ==
    /\ last.op = "user" /\ Authenticated(last)
    /\ last.attempts = <<Success>> /\ last.ran
    /\ \E s \in Sessions : session[s] = NoId

(* C5: for an authenticated caller of GET /admin whose record the guard    *)
(* re-fetched, the response is 200 success when the record's admin flag is *)
(* true and 401 You are not authorized when it is false.                   *)
C5_AdminFlagDecides ==
    (last.op = "admin" /\ Authenticated(last) /\ last.query = "ok")
    => Observed = IF firstWhere(users, "id", last.reqUser).admin
                  THEN Success ELSE NotAuthorized

C5_Witness ==
    /\ last.op = "admin" /\ Authenticated(last) /\ last.query = "ok"
    /\ ~firstWhere(users, "id", last.reqUser).admin
    /\ Observed = NotAuthorized

(* C6: an anonymous caller of GET /admin gets 401 Please log in and        *)
(* nothing else: the guard makes no query, writes no second response and   *)
(* the handler does not run.                                               *)
C6_AnonymousAdmin ==
    (last.op = "admin" /\ Anonymous(last))
    => /\ last.attempts = <<PleaseLogIn>>
       /\ last.query = "none"
       /\ ~last.ran

C6_Witness ==
    /\ last.op = "admin" /\ Anonymous(last)
    /\ Observed = PleaseLogIn
    /\ users # <<>>

(* C7: a register or login from an authenticated session answers 401 You   *)
(* are already logged in whatever the body, and leaves the sessions and    *)
(* the users table as they were.                                           *)
C7_AlreadyLoggedIn ==
    [][(last'.op \in {"register", "login"} /\ Authenticated(last'))
       => /\ last'.attempts = <<AlreadyLoggedIn>>
          /\ ~last'.ran
          /\ session' = session
          /\ users' = users]_vars

C7_Witness ==
    /\ last.op = "register" /\ Authenticated(last)
    /\ Len(last.body.username) >= 6 /\ Len(last.body.password) >= 6
    /\ ~Stored(users, last.body.username)
    /\ Observed = AlreadyLoggedIn

(* C8: a login that submits, in the body field username, a stored         *)
(* username with a wrong password and a login that submits a username that *)
(* is not stored both answer 404 User not found, and neither establishes a *)
(* session.                                                                *)
C8_LoginFailuresAlike ==
    (/\ last.op = "login" /\ Anonymous(last)
     /\ last.body.username # Absent
     /\ last.query # "fail"
     /\ Matching(users, last.body) = {})
    => /\ last.attempts = <<UserNotFound>>
       /\ session[last.sess] = NoId

C8_Witness ==
    /\ last.op = "login" /\ Anonymous(last)
    /\ Stored(users, last.body.username)
    /\ Matching(users, last.body) = {}
    /\ Observed = UserNotFound

(* C9: a registration from an anonymous session with a username shorter    *)
(* than 6 characters answers 400 with the username message whatever the    *)
(* password, creates no record and establishes no session.                 *)
C9_ShortUsername ==
    [][(/\ last'.op = "register" /\ Anonymous(last')
        /\ Len(last'.body.username) < 6)
       => /\ Observed' = Response(400, UsernameTooShort)
          /\ users' = users
          /\ session'[last'.sess] = NoId]_vars

C9_Witness ==
    /\ last.op = "register" /\ Anonymous(last)
    /\ Len(last.body.username) < 6 /\ Len(last.body.password) < 6
    /\ Observed = Response(400, UsernameTooShort)

(* C10: a registration from an anonymous session with a username of valid  *)
(* length and a password shorter than 6 characters answers 400 with the    *)
(* password message, creates no record and establishes no session.         *)
C10_ShortPassword ==
    [][(/\ last'.op = "register" /\ Anonymous(last')
        /\ Len(last'.body.username) >= 6
        /\ Len(last'.body.password) < 6)
       => /\ Observed' = Response(400, PasswordTooShort)
          /\ users' = users
          /\ session'[last'.sess] = NoId]_vars

C10_Witness ==
    /\ last.op = "register" /\ Anonymous(last)
    /\ Len(last.body.username) >= 6 /\ Len(last.body.password) < 6
    /\ ~Stored(users, last.body.username)
    /\ Observed = Response(400, PasswordTooShort)

(* C11: when the store rejects the insert of a registration of valid       *)
(* lengths from an anonymous session, the response is 500 error, the users *)
(* table is unchanged and no session is established.                       *)
C11_RejectedInsert ==
    [][(/\ last'.op = "register" /\ Anonymous(last')
        /\ Len(last'.body.username) >= 6 /\ Len(last'.body.password) >= 6
        /\ last'.query \in {"rejected", "fail"})
       => /\ Observed' = Response(500, "error")
          /\ users' = users
          /\ session'[last'.sess] = NoId]_vars

(* C12: when the lookup of the store fails during a login from an          *)
(* anonymous session, the response is 500 error and no session is          *)
(* established.                                                            *)
C12_LoginStoreFailure ==
    (last.op = "login" /\ Anonymous(last) /\ last.query = "fail")
    => /\ Observed = Response(500, "error")
       /\ session[last.sess] = NoId

(* C13: when the re-fetch of the admin guard fails for an authenticated    *)
(* caller of GET /admin, the guard answers 500 Something bad happened and  *)
(* nothing else, and the handler does not run.                             *)
C13_AdminRefetchFails ==
    (last.op = "admin" /\ Authenticated(last) /\ last.query = "fail")
    => /\ last.attempts = <<Response(500, "Something bad happened")>>
       /\ ~last.ran

C13_Witness ==
    /\ last.op = "admin" /\ Authenticated(last) /\ last.query = "fail"
    /\ Observed = Response(500, "Something bad happened")
    /\ firstWhere(users, "id", last.reqUser).admin

(* C14: the scripted client, starting anonymous on an empty table, gets    *)
(* 200 success for its registration of michael/herman1, 200 success for    *)
(* its login with the same credentials, 200 success for its logout and 401 *)
(* Please log in for its GET /user after that.                             *)
C14_Scenario ==
    (last.op # "none" /\ last.sess = ScenarioSession)
    => Observed = IF Len(script) = 0 THEN PleaseLogIn ELSE Success

(* C15: every record created through register has the admin flag false     *)
(* whatever fields the body carries, records are created by register       *)
(* alone, and no request changes the admin flag of a record.               *)
C15_AdminFlag ==
    [][/\ \A i \in 1..Len(users) :
            i <= Len(users') /\ users'[i].admin = users[i].admin
       /\ \A i \in (Len(users) + 1)..Len(users') :
            last'.op = "register" /\ users'[i].admin = FALSE]_vars

C15_Witness ==
    /\ last.op = "register" /\ last.query = "ok"
    /\ last.body.admin = "true"
    /\ Observed = Success
    /\ ~firstWhere(users, "username", last.body.username).admin
    /\ \E i \in 1..Len(users) : users[i].admin

FixedMessages ==
    {"success", UsernameTooShort, PasswordTooShort,
     "You are already logged in", "Please log in", "You are not authorized",
     "User not found", "error", "Something bad happened"}

C17_FixedMessages ==
    last.attempts # <<>> => Observed.status \in FixedMessages

C19_ExactlyOneResponse ==
    (last.op # "none" /\ last.deser # "fail") => Len(last.attempts) = 1

(* C20: once a guard has written its 401 or 500 the handler it guards does *)
(* not run, and the handler of GET /admin runs only for an authenticated   *)
(* caller whose re-fetched record has the admin flag true.                 *)
C20_ShortCircuitTerminal ==
    /\ (/\ last.attempts # <<>>
        /\ Observed \in {PleaseLogIn, AlreadyLoggedIn, NotAuthorized,
                          Response(500, "Something bad happened")})
       => ~last.ran
    /\ (last.op = "admin" /\ last.ran)
       => /\ Authenticated(last)
          /\ firstWhere(users, "id", last.reqUser).admin

(* C21: a request changes the user of a session only in two ways: the      *)
(* requesting session goes from no user to a user by a register or login   *)
(* answered 200 success, or from a user to no user by a logout answered    *)
(* 200 success.  Every other request leaves every session as it was, and a *)
(* session always holds no user or the identifier of a stored record.      *)
C21_SessionTransitions ==
    [][last'.op # "none"
       => \A s \in Sessions :
            /\ session'[s] \in {NoId} \cup {users'[i].id : i \in 1..Len(users')}
            /\ session'[s] # session[s]
               => /\ s = last'.sess
                  /\ last'.attempts = <<Success>>
                  /\ IF session[s] = NoId
                     THEN last'.op \in {"register", "login"}
                     ELSE last'.op = "logout" /\ session'[s] = NoId]_vars

C21_Witness ==
    /\ last.op = "logout" /\ Authenticated(last)
    /\ last.attempts = <<Success>>
    /\ session[last.sess] = NoId
    /\ \E t \in Sessions : session[t] \notin {NoId, last.reqUser}

(* C22: the users table changes only by a registration answered 200        *)
(* success, which appends one record and leaves the records before it as   *)
(* they were; login, logout, GET /user, GET /admin and every registration  *)
(* answered otherwise leave the table unchanged.                           *)
C22_TableOnlyGrows ==
    [][users' # users
       => /\ last'.op = "register"
          /\ last'.attempts = <<Success>>
          /\ Len(users') = Len(users) + 1
          /\ SubSeq(users', 1, Len(users)) = users]_vars

C22_Witness ==
    /\ last.op = "register" /\ last.attempts = <<Success>>
    /\ Len(users) >= 3
    /\ SubSeq(users, 1, 2) = seed(1, 2)
    /\ users[Len(users)].username = last.body.username

(* C23: however the registrations of different anonymous sessions          *)
(* interleave, no two stored records share a username, and of the          *)
(* registrations that submit one username at most one is answered 200      *)
(* success.                                                                *)
C23_UniqueUsernames ==
    /\ \A i, j \in 1..Len(users) :
          users[i].username = users[j].username => i = j
    /\ \A u \in Usernames : accepted[u] <= 1

C23_Witness ==
    \E s, t \in Sessions :
       /\ s # t
       /\ inflight[t].phase = "stored" /\ inflight[t].query = "rejected"
       /\ accepted[inflight[t].body.username] = 1
       /\ inflight[s].phase = "sent"
       /\ inflight[s].body.username = inflight[t].body.username

(* C24: a request leaves the session of every other client, and the user   *)
(* it resolves to, as they were; and whether the guard of a request lets   *)
(* it through is decided by the requesting session's own user and the      *)
(* users table, whatever the other sessions hold.                          *)
C24_SessionsIndependent ==
    [][(last'.op # "none" /\ last'.deser # "fail")
       => LET s == last'.sess
              own == firstWhere(users, "id", session[s])
          IN /\ \A t \in Sessions \ {s} :
                  /\ session'[t] = session[t]
                  /\ firstWhere(users', "id", session'[t])
                        = firstWhere(users, "id", session[t])
             /\ last'.reqUser = own.id
             /\ last'.op \in {"user", "logout"}
                  => last'.ran = (own # NoUser)
             /\ last'.op \in {"register", "login"}
                  => last'.ran = (own = NoUser)
             /\ last'.op = "admin"
                  => last'.ran = (own # NoUser /\ last'.query = "ok")]_vars

C24_Witness ==
    /\ last.op = "user" /\ Anonymous(last)
    /\ last.attempts = <<PleaseLogIn>>
    /\ \E t \in Sessions \ {last.sess} :
          session[t] # NoId /\ firstWhere(users, "id", session[t]).admin

C26_VerifierArguments ==
    (/\ last.op = "login" /\ Anonymous(last)
     /\ lookup(last.body, options.usernameField) # Absent
     /\ lookup(last.body, options.passwordField) # Absent
     /\ last.query # "fail")
    => LET v == verify(users, lookup(last.body, options.usernameField),
                       lookup(last.body, options.passwordField),
                       VerifiedFn, TRUE)
       IN /\ last.attempts = loginCallback(v.kind)
          /\ last.thrown = "none"

(* C27: the validation of a registration from an anonymous session rejects *)
(* exactly the bodies whose username or password is shorter than 6         *)
(* characters: a body with both of length 6 or more reaches the insert,    *)
(* every other body is answered with a length message and reaches none.    *)
C27_ValidationAcceptsSix ==
    [][(last'.op = "register" /\ Anonymous(last'))
       => LET valid == /\ Len(last'.body.username) >= 6
                       /\ Len(last'.body.password) >= 6
          IN /\ valid = (last'.query # "none")
             /\ valid = (Observed'.status
                            \notin {UsernameTooShort, PasswordTooShort})]_vars

C27_Witness ==
    /\ last.op = "register" /\ Anonymous(last)
    /\ Len(last.body.username) = 6 /\ Len(last.body.password) = 6
    /\ last.query = "ok" /\ Observed = Success
    /\ Len(users[Len(users)].username) = 6

(* C28: with the store answering every query, every request that reaches   *)
(* its route is answered: when its guard and handler are done, a response  *)
(* has been written.                                                       *)
C28_EveryRequestAnswered ==
    (last.op # "none" /\ last.deser # "fail") => last.attempts # <<>>
====
